---- MODULE Spec2Model ----
(***************************************************************************)
(* BPMorph (src/app/main.py): batch tempo change of the audio files of a   *)
(* folder.  The model covers the file system the program reads and writes, *)
(* the batch loop of __main__, main, changeBPM (one action per statement   *)
(* group, so that the intermediate file-system states are visible) and     *)
(* copyMetadata.  The external collaborators (pydub/ffmpeg, librosa,       *)
(* rubberband, mutagen) are modelled by their effect on the file system;   *)
(* whether each of them works is part of the environment chosen in Init.   *)
(*                                                                         *)
(* Strings are sequences of one-character strings, so that str.replace,    *)
(* str.endswith and the f-string formatting of the BPM are computed.       *)
(* Numbers (BPM values, stretch factors) are exact fractions <<n, d>>;     *)
(* None is <<0, 0>>.  Floating-point rounding is not modelled.             *)
(***************************************************************************)
EXTENDS Integers, Sequences, FiniteSets, TLC

VARIABLES
    fs,          \* file system: path -> file, for the paths that exist
    fs0,         \* the file system before the run (history)
    pre,         \* the file system and the factor argument when the latest call of
                 \* changeBPM or copyMetadata began (history)
    env,         \* which external collaborators work
    entry,       \* the entry point that was called: "batch", "main", "changeBPM", "copyMetadata"
    pc,          \* position in the code
    folder,      \* __main__: the --folder argument
    files,       \* __main__: the result of os.listdir(folder)
    idx,         \* __main__: index into files of the entry being handled (0 outside the loop)
    bpm,         \* __main__/main: the target BPM (an int)
    mfactor,     \* main: its factor parameter
    inputSong,   \* main: inputSong; copyMetadata: originalFile
    outputSong,  \* main: outputSong; copyMetadata: newFile
    inputAudio,  \* changeBPM: inputAudio
    outputAudio, \* changeBPM: outputAudio
    toBPM,       \* changeBPM: toBPM
    factor,      \* changeBPM: factor (parameter, reassigned at line 86)
    originalBPM, \* changeBPM: originalBPM
    rbArgs,      \* the arguments of the calls of rubberband so far (history)
    err,         \* the exception that ended the run, "none" while there is none
    log          \* the steps taken so far (history)

vars == <<fs, fs0, folder, pre, env, entry, pc, files, idx, bpm, mfactor, inputSong,
          outputSong, inputAudio, outputAudio, toBPM, factor, originalBPM,
          rbArgs, err, log>>

\* the largest number of entries of the input folder
MaxFiles == 2

(***************************************************************************)
(* Strings                                                                 *)
(***************************************************************************)
DotMp3 == <<".", "m", "p", "3">>

BPMDotMp3 == <<"B", "P", "M", ".", "m", "p", "3">>

tempInp == <<"T", "e", "m", "p", "o", "r", "a", "l", "I", "n", "p", ".", "w", "a", "v">>

tempOut == <<"T", "e", "m", "p", "o", "r", "a", "l", "O", "u", "t", ".", "w", "a", "v">>

\* the input directory
Folder == <<"d">>

\* the ways --folder may name it: without and with a trailing separator
Folders == {Folder, Folder \o <<"/">>}

NameA == <<"a", ".", "m", "p", "3">>

NameB == <<"b", ".", "w", "a", "v">>

NameC == <<"a", "_", "9", "0", "B", "P", "M", ".", "m", "p", "3">>

Names == {NameA, NameB, NameC}

OutMp3 == <<"o", ".", "m", "p", "3">>

OutWav == <<"o", ".", "w", "a", "v">>

Missing == <<"n", "o", "n", "e">>

\* str.replace(old, new): every non-overlapping occurrence, left to right
RECURSIVE Replace(_, _, _)
Replace(s, old, new) ==
    IF Len(s) < Len(old) THEN s
    ELSE IF SubSeq(s, 1, Len(old)) = old
         THEN new \o Replace(SubSeq(s, Len(old) + 1, Len(s)), old, new)
         ELSE <<Head(s)>> \o Replace(Tail(s), old, new)

\* str.endswith(suffix)
EndsWith(s, suffix) ==
    /\ Len(s) >= Len(suffix)
    /\ SubSeq(s, Len(s) - Len(suffix) + 1, Len(s)) = suffix

Digit(d) ==
    CASE d = 0 -> "0" [] d = 1 -> "1" [] d = 2 -> "2" [] d = 3 -> "3" [] d = 4 -> "4"
      [] d = 5 -> "5" [] d = 6 -> "6" [] d = 7 -> "7" [] d = 8 -> "8" [] d = 9 -> "9"

RECURSIVE NatToStr(_)
NatToStr(n) == IF n < 10 THEN <<Digit(n)>> ELSE NatToStr(n \div 10) \o <<Digit(n % 10)>>

\* f"{bpm}" of an int
IntToStr(n) == IF n < 0 THEN <<"-">> \o NatToStr(-n) ELSE NatToStr(n)

\* f"_{bpm}BPM.mp3"
Suffix(b) == <<"_">> \o IntToStr(b) \o BPMDotMp3

\* os.path.join(a, b): b alone when it is absolute; no separator is added when a is
\* empty or already ends in one
Join(a, b) ==
    IF Len(b) > 0 /\ Head(b) = "/" THEN b
    ELSE IF Len(a) = 0 \/ a[Len(a)] = "/" THEN a \o b
    ELSE a \o <<"/">> \o b

\* inputSong.replace(".mp3", f"_{bpm}BPM.mp3")
OutputName(song, b) == Replace(song, DotMp3, Suffix(b))

(***************************************************************************)
(* Numbers                                                                 *)
(***************************************************************************)
None == <<0, 0>>

Abs(n) == IF n < 0 THEN -n ELSE n

RECURSIVE Gcd(_, _)
Gcd(a, b) == IF b = 0 THEN a ELSE Gcd(b, a % b)

\* the fraction n/d (d # 0) in lowest terms with a positive denominator
Frac(n, d) ==
    LET g == Gcd(Abs(n), Abs(d))
        s == IF d < 0 THEN -1 ELSE 1
    IN  <<(s * n) \div g, (s * d) \div g>>

\* x / y of two numbers, y nonzero
Div(x, y) == Frac(x[1] * y[2], x[2] * y[1])

\* Python truth value of an Optional number: None and 0 are false
Truthy(x) == x # None /\ x[1] # 0

Positive(x) == x # None /\ x[1] > 0

(***************************************************************************)
(* Files                                                                   *)
(***************************************************************************)
NoTags == [tagged |-> FALSE, tags |-> {}]

Audio(src, tempo, fmt, passes) == [src |-> src, tempo |-> tempo, fmt |-> fmt, passes |-> passes]

\* a file that holds no decodable audio
NoAudio == Audio(0, None, "none", 0)

File(audio, id3) == [audio |-> audio, id3 |-> id3]

\* a directory: no audio to decode, no tags to read, and nothing can be written over it
Dir == File(Audio(0, None, "dir", 0), NoTags)

IsDir(f, p) == p \in DOMAIN f /\ f[p] = Dir

Decodable(f, p) == p \in DOMAIN f /\ f[p].audio.src # 0

Put(f, p, v) == [q \in DOMAIN f \cup {p} |-> IF q = p THEN v ELSE f[q]]

Remove(f, p) == [q \in DOMAIN f \ {p} |-> f[q]]

\* pydub: AudioSegment.from_file(inPath).export(outPath, format=fmt); no tags are written
ExportFs(f, inPath, outPath, fmt) ==
    Put(f, outPath, File([f[inPath].audio EXCEPT !.fmt = fmt], NoTags))

\* librosa: the tempo of the audio at path
DetectFs(f, path) == f[path].audio.tempo

\* rubberband -t fac --pitch 0: the duration is multiplied by fac, so the tempo is divided by it
StretchFs(f, inWav, outWav, fac) ==
    Put(f, outWav, File([f[inWav].audio EXCEPT !.tempo = Div(@, fac), !.fmt = "wav",
                                               !.passes = @ + 1], NoTags))

\* os.rename(src, dst): replaces dst; nothing happens when both name the same file
RenameFs(f, src, dst) == IF src = dst THEN f ELSE Remove(Put(f, dst, f[src]), src)

\* if os.path.exists(p): os.remove(p)
RemoveIfExists(f, p) == IF p \in DOMAIN f THEN Remove(f, p) ELSE f

\* ID3(path) succeeds: the file exists and carries a tag header
HasTags(f, p) == p \in DOMAIN f /\ f[p].id3.tagged

\* lines 21-25: ID3(newFile).delete(newFile), any exception swallowed
DeleteTagsFs(f, newFile) ==
    IF HasTags(f, newFile) THEN Put(f, newFile, [f[newFile] EXCEPT !.id3 = NoTags]) ELSE f

\* line 27: original_tags.save(newFile); mutagen creates the file when it is missing
SaveTagsFs(f, tags, newFile) ==
    IF newFile \in DOMAIN f
    THEN Put(f, newFile, [f[newFile] EXCEPT !.id3 = [tagged |-> TRUE, tags |-> tags]])
    ELSE Put(f, newFile, File(NoAudio, [tagged |-> TRUE, tags |-> tags]))

\* copyMetadata without lines 21-25, the saved tags added to those already there
CopyMetadataMerge(f, originalFile, newFile) ==
    LET original_tags == f[originalFile].id3.tags
        old_tags == IF HasTags(f, newFile) THEN f[newFile].id3.tags ELSE {}
    IN  SaveTagsFs(f, original_tags \cup old_tags, newFile)

\* copyMetadata(originalFile, newFile) when ID3(originalFile) succeeds
CopyMetadataFs(f, originalFile, newFile) ==
    LET original_tags == f[originalFile].id3.tags
    IN  SaveTagsFs(DeleteTagsFs(f, newFile), original_tags, newFile)

\* the first component of a relative path
FirstComponent(s) ==
    IF \E i \in 1..Len(s) : s[i] = "/"
    THEN SubSeq(s, 1, (CHOOSE i \in 1..Len(s) :
                         s[i] = "/" /\ \A j \in 1..(i - 1) : s[j] # "/") - 1)
    ELSE s

\* os.listdir(dir): the names of the direct entries of the directory, files and
\* subdirectories alike; what lies below a subdirectory is not listed
ListDirFs(f, dir) ==
    LET pfx == Join(dir, << >>)
    IN  {FirstComponent(SubSeq(p, Len(pfx) + 1, Len(p))) :
            p \in {q \in DOMAIN f : Len(q) > Len(pfx) /\ SubSeq(q, 1, Len(pfx)) = pfx}}

\* the orders in which os.listdir may return a set of names
Orders(S) ==
    {s \in [1..Cardinality(S) -> S] : \A i, j \in 1..Cardinality(S) : s[i] = s[j] => i = j}

(***************************************************************************)
(* Control                                                                 *)
(***************************************************************************)
Ev(e, ok) == [ev |-> e, file |-> idx, ok |-> ok]

Logged(e, ok) == log' = Append(log, Ev(e, ok))

\* an exception caught around the call of main: the batch goes on with the next entry
RaiseSkip(e) == pc' = (IF entry = "batch" THEN "loop" ELSE "crashed") /\ err' = e

\* an exception nobody catches ends the process (no try around lines 136-138, 121-125)
Raise(e) == pc' = "crashed" /\ err' = e

\* main returning right after changeBPM, without line 125
ReturnSkippingMetadata ==
    IF entry = "changeBPM" THEN "done" ELSE IF entry = "batch" THEN "loop" ELSE "copyMetadata"

\* return of changeBPM to its caller: main goes on to line 125
ReturnFromChangeBPM == IF entry = "changeBPM" THEN "done" ELSE "copyMetadata"

\* return of copyMetadata, and with it of main, to its caller: the loop of line 136
ReturnFromCopyMetadata == IF entry = "batch" THEN "loop" ELSE "done"

\* the state on entry to changeBPM at lines 121 and 123
CallChangeBPM(inp, out, bpmArg, factorArg) ==
    /\ pc' = "changeBPM"
    /\ inputAudio' = inp
    /\ outputAudio' = out
    /\ toBPM' = bpmArg
    /\ factor' = factorArg

(***************************************************************************)
(* __main__ and main                                                       *)
(***************************************************************************)
\* line 135: files = os.listdir(folder)
ListDir ==
    /\ pc = "listdir"
    /\ \E order \in Orders(ListDirFs(fs, folder)) : files' = order
    /\ idx' = 0
    /\ pc' = "loop"
    /\ UNCHANGED <<fs, fs0, folder, pre, env, entry, bpm, mfactor, inputSong, outputSong,
                   inputAudio, outputAudio, toBPM, factor, originalBPM, rbArgs, err, log>>

\* lines 136-138: the next entry of the listing, or the end of the loop
LoopNext ==
    /\ pc = "loop"
    /\ IF idx < Len(files)
       THEN /\ idx' = idx + 1
            /\ inputSong' = Join(folder, files[idx + 1])
            /\ pc' = "main"
       ELSE /\ pc' = "done"
            /\ UNCHANGED <<idx, inputSong>>
    /\ UNCHANGED <<fs, fs0, folder, pre, env, entry, files, bpm, mfactor, outputSong,
                   inputAudio, outputAudio, toBPM, factor, originalBPM, rbArgs, err, log>>

\* lines 117-123: main up to its call of changeBPM, or to line 125 when it makes none
Main ==
    /\ pc = "main"
    /\ outputSong' = OutputName(inputSong, bpm)
    /\ IF Truthy(mfactor)
       THEN CallChangeBPM(inputSong, outputSong', None, mfactor)
       ELSE IF bpm # 0
            THEN CallChangeBPM(inputSong, outputSong', <<bpm, 1>>, None)
            ELSE /\ pc' = "copyMetadata"
                 /\ UNCHANGED <<inputAudio, outputAudio, toBPM, factor>>
    /\ log' = Append(log, [ev |-> "main", file |-> idx, ok |-> TRUE])
    /\ UNCHANGED <<fs, fs0, folder, pre, env, entry, files, idx, bpm, mfactor, inputSong,
                   originalBPM, rbArgs, err>>

(***************************************************************************)
(* changeBPM                                                               *)
(***************************************************************************)
\* lines 68-74: the argument check
Validate ==
    /\ pc = "changeBPM"
    /\ pre' = [fs |-> fs, factor |-> factor]
    /\ IF (~Truthy(toBPM) /\ ~Truthy(factor)) \/ (Truthy(toBPM) /\ Truthy(factor))
       THEN Raise("ValueError") /\ Logged("changeBPM", FALSE)
       ELSE pc' = "convert" /\ err' = err /\ Logged("changeBPM", TRUE)
    /\ UNCHANGED <<fs, fs0, folder, env, entry, files, idx, bpm, mfactor, inputSong, outputSong,
                   inputAudio, outputAudio, toBPM, factor, originalBPM, rbArgs>>

\* lines 77-78: convertToWav(inputAudio, tempInp)
ConvertToWav ==
    /\ pc = "convert"
    /\ IF Decodable(fs, inputAudio)
       THEN /\ fs' = ExportFs(fs, inputAudio, tempInp, "wav")
            /\ pc' = IF Truthy(toBPM) THEN "detect" ELSE "stretch"
            /\ err' = err
            /\ Logged("ConvertingToWav", TRUE)
       ELSE Raise("decode") /\ fs' = fs /\ Logged("ConvertingToWav", FALSE)
    /\ UNCHANGED <<fs0, folder, pre, env, entry, files, idx, bpm, mfactor, inputSong, outputSong,
                   inputAudio, outputAudio, toBPM, factor, originalBPM, rbArgs>>

\* lines 80-83: originalBPM = detectBPM(tempInp)
DetectBPM ==
    /\ pc = "detect"
    /\ IF env.detect
       THEN /\ originalBPM' = DetectFs(fs, tempInp)
            /\ pc' = "factor"
            /\ err' = err
            /\ Logged("DetectingBPM", TRUE)
       ELSE Raise("detect") /\ originalBPM' = originalBPM /\ Logged("DetectingBPM", FALSE)
    /\ UNCHANGED <<fs, fs0, folder, pre, env, entry, files, idx, bpm, mfactor, inputSong, outputSong,
                   inputAudio, outputAudio, toBPM, factor, rbArgs>>

\* lines 86-87 with the quotient inverted: factor = toBPM / originalBPM
ComputeFactorInverted ==
    /\ pc = "factor"
    /\ factor' = Div(toBPM, originalBPM)
    /\ pc' = "stretch"
    /\ Logged("ComputingFactor", TRUE)
    /\ UNCHANGED <<fs, fs0, folder, pre, env, entry, files, idx, bpm, mfactor, inputSong, outputSong,
                   inputAudio, outputAudio, toBPM, originalBPM, rbArgs, err>>

\* lines 86-87: factor = originalBPM / toBPM
ComputeFactor ==
    /\ pc = "factor"
    /\ factor' = Div(originalBPM, toBPM)
    /\ pc' = "stretch"
    /\ Logged("ComputingFactor", TRUE)
    /\ UNCHANGED <<fs, fs0, folder, pre, env, entry, files, idx, bpm, mfactor, inputSong, outputSong,
                   inputAudio, outputAudio, toBPM, originalBPM, rbArgs, err>>

\* lines 90-91 and 58-65: rubberband -t factor tempInp tempOut, check=True
Stretch ==
    /\ pc = "stretch"
    /\ rbArgs' = Append(rbArgs, [t |-> factor, inputWav |-> tempInp, outputWav |-> tempOut])
    /\ IF env.rubberband
       THEN /\ fs' = StretchFs(fs, tempInp, tempOut, factor)
            /\ pc' = "output"
            /\ err' = err
            /\ Logged("Stretching", TRUE)
       ELSE Raise("stretch") /\ fs' = fs /\ Logged("Stretching", FALSE)
    /\ UNCHANGED <<fs0, folder, pre, env, entry, files, idx, bpm, mfactor, inputSong, outputSong,
                   inputAudio, outputAudio, toBPM, factor, originalBPM>>

\* lines 94-96: the output path ends in ".mp3": re-encode the stretched WAV
Reconvert ==
    /\ pc = "output"
    /\ EndsWith(outputAudio, DotMp3)
    /\ IF env.export /\ ~IsDir(fs, outputAudio)
       THEN /\ fs' = ExportFs(fs, tempOut, outputAudio, "mp3")
            /\ pc' = "cleanup"
            /\ err' = err
            /\ Logged("ReconvertingToTargetFormat", TRUE)
       ELSE Raise("export") /\ fs' = fs /\ Logged("ReconvertingToTargetFormat", FALSE)
    /\ UNCHANGED <<fs0, folder, pre, env, entry, files, idx, bpm, mfactor, inputSong, outputSong,
                   inputAudio, outputAudio, toBPM, factor, originalBPM, rbArgs>>

\* lines 97-98: any other output path: os.rename(tempOut, outputAudio)
Rename ==
    /\ pc = "output"
    /\ ~EndsWith(outputAudio, DotMp3)
    /\ IF env.export /\ ~IsDir(fs, outputAudio)
       THEN /\ fs' = RenameFs(fs, tempOut, outputAudio)
            /\ pc' = "cleanup"
            /\ err' = err
            /\ Logged("Renaming", TRUE)
       ELSE Raise("export") /\ fs' = fs /\ Logged("Renaming", FALSE)
    /\ UNCHANGED <<fs0, folder, pre, env, entry, files, idx, bpm, mfactor, inputSong, outputSong,
                   inputAudio, outputAudio, toBPM, factor, originalBPM, rbArgs>>

\* lines 101-104: remove the temporary files that exist
CleanUp ==
    /\ pc = "cleanup"
    /\ fs' = RemoveIfExists(RemoveIfExists(fs, tempInp), tempOut)
    /\ pc' = "report"
    /\ Logged("CleaningUp", TRUE)
    /\ UNCHANGED <<fs0, folder, pre, env, entry, files, idx, bpm, mfactor, inputSong, outputSong,
                   inputAudio, outputAudio, toBPM, factor, originalBPM, rbArgs, err>>

\* line 106: the success message, and the return to the caller
Report ==
    /\ pc = "report"
    /\ pc' = ReturnFromChangeBPM
    /\ Logged("Done", TRUE)
    /\ UNCHANGED <<fs, fs0, folder, pre, env, entry, files, idx, bpm, mfactor, inputSong, outputSong,
                   inputAudio, outputAudio, toBPM, factor, originalBPM, rbArgs, err>>

(***************************************************************************)
(* copyMetadata                                                            *)
(***************************************************************************)
\* lines 19-28: copyMetadata(inputSong, outputSong)
CopyMetadata ==
    /\ pc = "copyMetadata"
    /\ pre' = [fs |-> fs, factor |-> factor]
    /\ IF ~HasTags(fs, inputSong)
       THEN Raise("metadata") /\ fs' = fs /\ Logged("copyMetadata", FALSE)
       ELSE IF IsDir(fs, outputSong)
       THEN Raise("save") /\ fs' = fs /\ Logged("copyMetadata", FALSE)
       ELSE /\ fs' = CopyMetadataFs(fs, inputSong, outputSong)
            /\ pc' = ReturnFromCopyMetadata
            /\ err' = err
            /\ Logged("copyMetadata", TRUE)
    /\ UNCHANGED <<fs0, folder, env, entry, files, idx, bpm, mfactor, inputSong, outputSong,
                   inputAudio, outputAudio, toBPM, factor, originalBPM, rbArgs>>

(***************************************************************************)
(* Initial states                                                          *)
(***************************************************************************)
Tagged(tags) == [tagged |-> TRUE, tags |-> tags]

\* the files an input folder may hold: 120 BPM with a title, 90 BPM with title and
\* artist, 120 BPM without tags, and tags without decodable audio
Variants ==
    { File(Audio(1, <<120, 1>>, "orig", 0), Tagged({"TIT2"})),
      File(Audio(2, <<90, 1>>, "orig", 0), Tagged({"TIT2", "TPE1"})),
      File(Audio(3, <<120, 1>>, "orig", 0), NoTags),
      File(NoAudio, Tagged({"TPE1"})) }

\* the files directly in the folder
FlatStates ==
    UNION { [{Join(Folder, n) : n \in S} -> Variants] :
              S \in {T \in SUBSET Names : Cardinality(T) <= MaxFiles} }

SubDir == Join(Folder, <<"s">>)

\* no subdirectory, an empty one, or one that holds an audio file
SubDirStates ==
    { [p \in {} |-> Dir],
      [p \in {SubDir} |-> Dir],
      [p \in {SubDir, Join(SubDir, NameA)} |->
          IF p = SubDir THEN Dir ELSE File(Audio(4, <<90, 1>>, "orig", 0), Tagged({"TIT2"}))] }

\* the folder: at most MaxFiles direct entries
FolderStates ==
    { e[1] @@ e[2] :
        e \in { x \in FlatStates \X SubDirStates :
                   Cardinality(DOMAIN x[1]) + (IF DOMAIN x[2] = {} THEN 0 ELSE 1) <= MaxFiles } }

Envs == [detect : BOOLEAN, rubberband : BOOLEAN, export : BOOLEAN]

AllWork == [detect |-> TRUE, rubberband |-> TRUE, export |-> TRUE]

\* --bpm: any int
BPMs == {0, 90}

NoPath == << >>

\* python main.py -f d -b bpm
InitBatch ==
    /\ entry = "batch"
    /\ folder \in Folders
    /\ fs \in FolderStates
    /\ env \in Envs
    /\ bpm \in BPMs
    /\ pc = "listdir"
    /\ mfactor = None
    /\ inputSong = NoPath /\ outputSong = NoPath
    /\ inputAudio = NoPath /\ outputAudio = NoPath
    /\ toBPM = None /\ factor = None

\* main(bpm, factor, inputSong) called with a factor
InitMain ==
    /\ entry = "main"
    /\ folder = Folder
    /\ fs \in {f \in FolderStates : Cardinality(ListDirFs(f, Folder)) = 1}
    /\ env \in Envs
    /\ bpm \in BPMs
    /\ mfactor \in {<<0, 1>>, <<3, 2>>}
    /\ pc = "main"
    /\ inputSong \in DOMAIN fs /\ outputSong = NoPath
    /\ inputAudio = NoPath /\ outputAudio = NoPath
    /\ toBPM = None /\ factor = None

\* changeBPM(inputAudio, outputAudio, toBPM, factor) called directly
InitChangeBPM ==
    /\ entry = "changeBPM"
    /\ folder = Folder
    /\ fs \in {f \in FolderStates : Cardinality(ListDirFs(f, Folder)) = 1}
    /\ env \in Envs
    /\ bpm = 0 /\ mfactor = None
    /\ pc = "changeBPM"
    /\ inputSong = NoPath /\ outputSong = NoPath
    /\ inputAudio \in DOMAIN fs
    /\ outputAudio \in {OutMp3, OutWav, tempInp, tempOut, inputAudio}
    /\ toBPM \in {None, <<0, 1>>, <<100, 1>>}
    /\ factor \in {None, <<0, 1>>, <<3, 2>>}

\* copyMetadata(originalFile, newFile) called directly
InitCopyMetadata ==
    /\ entry = "copyMetadata"
    /\ folder = Folder
    /\ fs \in FolderStates
    /\ env = AllWork
    /\ bpm = 0 /\ mfactor = None
    /\ pc = "copyMetadata"
    /\ inputSong \in DOMAIN fs \cup {Missing}
    /\ outputSong \in DOMAIN fs \cup {Missing}
    /\ inputAudio = NoPath /\ outputAudio = NoPath
    /\ toBPM = None /\ factor = None

Init ==
    /\ \/ InitBatch
       \/ InitMain
       \/ InitChangeBPM
       \/ InitCopyMetadata
    /\ fs0 = fs
    /\ pre = [fs |-> fs, factor |-> factor]
    /\ files = << >>
    /\ idx = 0
    /\ originalBPM = None
    /\ rbArgs = << >>
    /\ err = "none"
    /\ log = << >>

Next ==
    \/ ListDir
    \/ LoopNext
    \/ Main
    \/ Validate
    \/ ConvertToWav
    \/ DetectBPM
    \/ ComputeFactor
    \/ Stretch
    \/ Reconvert
    \/ Rename
    \/ CleanUp
    \/ Report
    \/ CopyMetadata

Spec == Init /\ [][Next]_vars

(***************************************************************************)
(* Properties                                                              *)
(***************************************************************************)
LastEv == log[Len(log)]

LastIs(e) == Len(log) > 0 /\ LastEv.ev = e

\* the names of the steps logged for entry i, apart from the calls themselves
StepsOf(i) ==
    LET sel == SelectSeq(log, LAMBDA e : e.file = i /\ e.ev \notin {"main", "changeBPM", "copyMetadata"})
    IN  [k \in 1..Len(sel) |-> sel[k].ev]

Count(e, i) == Cardinality({k \in 1..Len(log) : log[k].ev = e /\ log[k].file = i})

\* the call of changeBPM got past the argument check and has ended
ChangeBPMEnded ==
    \/ pc = "crashed" /\ err \in {"decode", "detect", "stretch", "export"}
    \/ LastIs("Done")

\* C1: after a call of changeBPM that got past the argument check has ended, normally
\* or by a failure, neither temporary WAV file exists
C1_TempFilesRemoved ==
    ChangeBPMEnded => tempInp \notin DOMAIN fs /\ tempOut \notin DOMAIN fs

Supplied(x) == x # None

\* C2: changeBPM goes on to the conversion exactly when one of toBPM and factor is
\* supplied and the other is not; otherwise it raises ValueError and no file is touched
C2_ExactlyOneSupplied ==
    /\ pc = "convert" => Supplied(toBPM) # Supplied(pre.factor)
    /\ LastIs("changeBPM") /\ Supplied(toBPM) = Supplied(pre.factor) =>
          err = "ValueError" /\ pc = "crashed" /\ fs = pre.fs

\* entry i of the listing had its result written (re-encoded or renamed)
Written(i) ==
    \E k \in 1..Len(log) :
        /\ log[k].file = i
        /\ log[k].ev \in {"ReconvertingToTargetFormat", "Renaming"}
        /\ log[k].ok

\* C3: the batch run writes the result of every entry to a path other than the entry's
\* own, and every entry of the folder holds after the run what it held before
C3_OriginalsUntouched ==
    entry = "batch" /\ pc \in {"done", "crashed"} =>
        \A i \in 1..Len(files) :
            LET p == Join(folder, files[i])
            IN  /\ Written(i) => OutputName(p, bpm) # p
                /\ p \in DOMAIN fs /\ fs[p] = fs0[p]

\* C4: when the stretcher fails, changeBPM ends with that failure: no re-encoding, no
\* renaming, no second attempt, no success message, and no file created at the output path
C4_StretchFailureNoOutput ==
    err = "stretch" =>
        /\ pc = "crashed"
        /\ LastIs("Stretching") /\ ~LastEv.ok
        /\ Count("Stretching", idx) = 1
        /\ Count("ReconvertingToTargetFormat", idx) = 0
        /\ Count("Renaming", idx) = 0
        /\ Count("Done", idx) = 0
        /\ outputAudio \in DOMAIN fs => outputAudio \in DOMAIN pre.fs

\* C5: in a batch run copyMetadata is called for an entry only after changeBPM was
\* called for that entry and returned
C5_MetadataAfterSuccess ==
    entry = "batch" =>
        \A k \in 1..Len(log) :
            log[k].ev = "copyMetadata" =>
                \E j \in 1..(k - 1) : log[j].ev = "Done" /\ log[j].file = log[k].file

\* C6: the batch handles the entries of the one listing taken at the start, one at a
\* time and each at most once: the steps of an entry begin only after the previous
\* entry's steps have ended with its metadata copy, cleanup included
C6_Sequential ==
    entry = "batch" /\ pc # "listdir" =>
        /\ files \in Orders(ListDirFs(fs0, folder))
        /\ idx \in 0..Len(files)
        /\ \A k \in 1..Len(log) : log[k].file \in 1..idx
        /\ \A i \in 1..idx :
              /\ Count("main", i) = (IF i = idx /\ pc = "main" THEN 0 ELSE 1)
              /\ Count("changeBPM", i) <= 1
        /\ \A k \in 1..(Len(log) - 1) :
              \/ log[k + 1].file = log[k].file
              \/ /\ log[k + 1].file = log[k].file + 1
                 /\ log[k + 1].ev = "main"
                 /\ log[k].ev = "copyMetadata" /\ log[k].ok
                 /\ Count("changeBPM", log[k].file) = 1 =>
                        \E j \in 1..k : log[j].file = log[k].file /\ log[j].ev = "CleaningUp"

\* C6 witness: the second entry has begun its conversion after the first was completed
C6_Witness ==
    /\ entry = "batch"
    /\ idx = 2
    /\ pc = "detect"
    /\ Count("Done", 1) = 1

\* C7: an exception in the handling of an entry ends the batch there: the failing step
\* is the last step taken, nothing was retried and no later entry was begun
C7_FailStop ==
    err # "none" =>
        /\ pc = "crashed"
        /\ ~LastEv.ok
        /\ \A k \in 1..(Len(log) - 1) : log[k].ok
        /\ entry = "batch" =>
              /\ LastEv.file = idx
              /\ \A k \in 1..Len(log) : log[k].file <= idx
              /\ Count("main", idx) = 1

\* C7 witness: the batch has ended at a failing entry with another entry still to come
C7_Witness ==
    /\ entry = "batch"
    /\ pc = "crashed"
    /\ idx < Len(files)
    /\ err \in {"decode", "stretch", "metadata"}

\* the stages of a successful run, in order
ExpectedStages ==
    <<"ConvertingToWav">>
    \o (IF Truthy(toBPM) THEN <<"DetectingBPM", "ComputingFactor">> ELSE << >>)
    \o <<"Stretching">>
    \o (IF EndsWith(outputAudio, DotMp3) THEN <<"ReconvertingToTargetFormat">> ELSE <<"Renaming">>)
    \o <<"CleaningUp", "Done">>

StageOrder == LastIs("Done") => StepsOf(idx) = ExpectedStages

\* C8: a successful run of changeBPM goes through the stages in their order, each once,
\* and reports success after the cleanup, when the output file exists at the output path
C8_StagesAndOutput ==
    /\ StageOrder
    /\ LastIs("Done") => outputAudio \in DOMAIN fs

\* C9: with a target BPM the stretcher is given detected BPM / target BPM, positive when
\* both are; with a factor alone it is given that factor and no detection is made
C9_FactorPassed ==
    LastIs("Stretching") =>
        LET t == rbArgs[Len(rbArgs)].t
        IN  IF Truthy(toBPM)
            THEN /\ Count("DetectingBPM", idx) = 1
                 /\ originalBPM = pre.fs[inputAudio].audio.tempo
                 /\ t[1] * toBPM[1] * originalBPM[2] = originalBPM[1] * toBPM[2] * t[2]
                 /\ Positive(originalBPM) /\ Positive(toBPM) => Positive(t)
            ELSE /\ Count("DetectingBPM", idx) = 0
                 /\ t = pre.factor

\* C9 witness: the stretcher was called with a factor computed from two different BPMs
C9_Witness ==
    /\ LastIs("Stretching")
    /\ Truthy(toBPM)
    /\ originalBPM # toBPM
    /\ rbArgs[Len(rbArgs)].t = <<4, 3>>

\* C10 (inputSong and outputSong are A and B until main is called for the next entry):
\* after copyMetadata(A, B) the tags of B are those of A, A's tags and the audio
\* of both are as before, and a second call changes nothing; with B a file or missing
\* it fails exactly when A's tags cannot be read, and a failure changes nothing
C10_CopyMetadata ==
    LastIs("copyMetadata") /\ pc # "main" =>
        IF LastEv.ok
        THEN /\ HasTags(pre.fs, inputSong)
             /\ fs[outputSong].id3 = pre.fs[inputSong].id3
             /\ fs[inputSong].id3 = pre.fs[inputSong].id3
             /\ \A p \in DOMAIN pre.fs : p \in DOMAIN fs /\ fs[p].audio = pre.fs[p].audio
             /\ \A p \in DOMAIN fs \ {outputSong} : p \in DOMAIN pre.fs /\ fs[p] = pre.fs[p]
             /\ CopyMetadataFs(fs, inputSong, outputSong) = fs
        ELSE /\ ~IsDir(pre.fs, outputSong) => ~HasTags(pre.fs, inputSong) /\ err = "metadata"
             /\ pc = "crashed"
             /\ fs = pre.fs

\* C10 witness: tags were copied onto an existing file that carried other tags
C10_Witness ==
    /\ LastIs("copyMetadata") /\ LastEv.ok
    /\ inputSong # outputSong
    /\ HasTags(pre.fs, outputSong)
    /\ pre.fs[outputSong].id3 # pre.fs[inputSong].id3

====
